---- MODULE Spec2Model ----
(***************************************************************************)
(* Model of mall_monitor (src/main.py): the snapshot store                 *)
(* (load_old_shops / save_new_shops), the diff engine (analyze_changes),   *)
(* the report writers (save_report_to_json / generate_html_report) and one *)
(* monitoring run (parse_aviapark / parse_riviera).                        *)
(*                                                                         *)
(* A str is a sequence of one-character strings.  A Point is a record with *)
(* the six fields of the dataclass.  A file is Absent, Truncated (opened   *)
(* for writing, the body not written completely) or a record with its      *)
(* content.                                                                *)
(***************************************************************************)
EXTENDS Integers, Sequences, FiniteSets, TLC

VARIABLES
    pc,             \* position of the current run (or of the pure-function harness)
    run,            \* number of the current run (1, 2, ...)
    now,            \* the wall clock, in whole seconds (datetime.now() at %S resolution)
    old_shops,      \* local of parse_*: what load_old_shops returned
    new_shop_list,  \* local of parse_*: the freshly ingested Points
    report,         \* local of parse_*: the ChangeReport, NoReport before analyze_changes
    ret,            \* what parse_* returned: "pending", "None", "report" or "raised"
    fetch_status,   \* "none", "ok" or "failed": outcome of requests.get in this run
    outcome,        \* how each persistence step of this run ended, "none" before it is called
    data_file,      \* the snapshot file (filename)
    latest_json,    \* reports/latest_report.json
    history_json,   \* reports/report_<date_str>.json, by date_str
    report_html,    \* reports/report.html
    history_html,   \* reports/report_<date_str>.html, by date_str
    fs_start,       \* the five files as they were when the current run started
    faults          \* how many calls the environment has failed so far (makedirs, open, write)

vars == <<pc, run, now, old_shops, new_shop_list, report, ret, fetch_status,
          outcome, data_file, latest_json, history_json, report_html,
          history_html, fs_start, faults>>

(***************************************************************************)
(* Bounds of the model.                                                    *)
(***************************************************************************)
MaxLen == 2
MaxRuns == 2
MaxClock == 1
MaxFaults == 1

(***************************************************************************)
(* Strings.                                                                *)
(***************************************************************************)
Whitespace == {" ", "\t"}

Range(s) == {s[i] : i \in DOMAIN s}

SeqsUpTo(S, n) == UNION {[1..k -> S] : k \in 0..n}

\* str.lower() on one character of the model's alphabet
LowerChar(c) ==
    CASE c = "A" -> "a"
      [] c = "B" -> "b"
      [] OTHER -> c

lower(s) == [i \in DOMAIN s |-> LowerChar(s[i])]

RECURSIVE lstrip(_)
lstrip(s) ==
    IF s # <<>> /\ Head(s) \in Whitespace THEN lstrip(Tail(s)) ELSE s

RECURSIVE rstrip(_)
rstrip(s) ==
    IF s # <<>> /\ s[Len(s)] \in Whitespace
    THEN rstrip(SubSeq(s, 1, Len(s) - 1))
    ELSE s

strip(s) == rstrip(lstrip(s))

\* variant of normalize_name without lower()
normalize_name_nolower(name) == strip(name)

normalize_name(name) == lower(strip(name))

(***************************************************************************)
(* Point (dataclass) and the Points the inputs are drawn from.             *)
(***************************************************************************)
PointFields ==
    {"id", "name", "parsed_categories", "assigned_categories", "parsing_date", "status"}

Point(id, name, parsed, assigned, date, status) ==
    [id |-> id, name |-> name, parsed_categories |-> parsed,
     assigned_categories |-> assigned, parsing_date |-> date, status |-> status]

\* dataclasses.asdict: the mapping field name -> value
asdict(shop) == [k \in PointFields |-> shop[k]]

\* Names: "A", " a\t" and "a " normalize to "a"; "b" and "B " to "b".
NameA == <<"A">>
NameA2 == <<" ", "a", "\t">>
NameB == <<"b">>
NameB2 == <<"B", " ">>

\* One base Point per name, and Points that differ from the base in one
\* field, or only in fields and representations the diff does not track.
PointSet ==
    { Point("1", NameA,  <<"A", "B">>,      <<>>,    "d1", "opened"),
      Point("1", NameA2, <<"B", "A", "A">>, <<"X">>, "d2", "opened"),
      Point("2", NameA2, <<"A", "B">>,      <<>>,    "d1", "opened"),
      Point("1", NameA,  <<"A", "B">>,      <<>>,    "d1", "closed"),
      Point("1", NameA2, <<"B", "C">>,      <<>>,    "d1", "opened"),
      Point("1", NameB,  <<>>,              <<>>,    "d1", "opened"),
      Point("2", NameB2, <<"C">>,           <<"X">>, "d2", "closed") }

PointSeqs == SeqsUpTo(PointSet, MaxLen)

(***************************************************************************)
(* analyze_changes.                                                        *)
(***************************************************************************)
NoReport == [none |-> TRUE]

\* variant of DictPut that keeps the value a key already has
DictPutFirstWins(d, k, v) ==
    [x \in DOMAIN d \cup {k} |-> IF x \in DOMAIN d THEN d[x] ELSE v]

\* d[k] = v on a dict (a function on its keys): a later value replaces an earlier one
DictPut(d, k, v) ==
    [x \in DOMAIN d \cup {k} |-> IF x = k THEN v ELSE d[x]]

\* {normalize_name(shop.name): shop for shop in shops}
RECURSIVE name_dict(_)
name_dict(shops) ==
    IF shops = <<>>
    THEN <<>>
    ELSE LET n == Len(shops)
         IN  DictPut(name_dict(SubSeq(shops, 1, n - 1)),
                     normalize_name(shops[n].name), shops[n])

\* The orders in which iterating a set may yield its elements.
Orders(S) == {s \in [1..Cardinality(S) -> S] : Range(s) = S}

Max(a, b) == IF a >= b THEN a ELSE b

\* variant of change_percentage that divides by max(total_after, 1)
change_percentage_of_after(total_before, total_after) ==
    LET num == total_after - total_before
        den == Max(total_after, 1)
    IN  IF num >= 0
        THEN (2 * num * 10000 + den) \div (2 * den)
        ELSE -((2 * (-num) * 10000 + den) \div (2 * den))

\* line 131: round((total_after - total_before) / max(total_before, 1) * 100, 2),
\* in hundredths of a percent; no quotient of the model lies halfway between
\* two hundredths.
change_percentage(total_before, total_after) ==
    LET num == total_after - total_before
        den == Max(total_before, 1)
    IN  IF num >= 0
        THEN (2 * num * 10000 + den) \div (2 * den)
        ELSE -((2 * (-num) * 10000 + den) \div (2 * den))

\* variant of unchanged_count that does not subtract the changed names
unchanged_count_all(remaining, changed_shops_list) == Len(remaining)

\* line 130
unchanged_count(remaining, changed_shops_list) ==
    Len(remaining) - Len(changed_shops_list)

\* variant of categories_change with added and removed exchanged
categories_change_swapped(old_cats, new_cats) ==
    [added |-> old_cats \ new_cats,
     removed |-> new_cats \ old_cats,
     total_old |-> Cardinality(old_cats),
     total_new |-> Cardinality(new_cats)]

\* lines 105-114: added and removed are list(set), kept as the set the list
\* enumerates
categories_change(old_cats, new_cats) ==
    [added |-> new_cats \ old_cats,
     removed |-> old_cats \ new_cats,
     total_old |-> Cardinality(old_cats),
     total_new |-> Cardinality(new_cats)]

\* variant of changes_of without the comparison of status
changes_ignore_status(old_shop, new_shop) ==
    LET old_cats == Range(old_shop.parsed_categories)
        new_cats == Range(new_shop.parsed_categories)
        keys == (IF old_shop.id # new_shop.id THEN {"id"} ELSE {})
                \cup (IF old_cats # new_cats THEN {"categories"} ELSE {})
    IN  [k \in keys |->
            CASE k = "id" -> [old |-> old_shop.id, new |-> new_shop.id]
              [] k = "categories" -> categories_change(old_cats, new_cats)]

\* lines 93-114: the changes dict of one common name
changes_of(old_shop, new_shop) ==
    LET old_cats == Range(old_shop.parsed_categories)
        new_cats == Range(new_shop.parsed_categories)
        keys == (IF old_shop.id # new_shop.id THEN {"id"} ELSE {})
                \cup (IF old_shop.status # new_shop.status THEN {"status"} ELSE {})
                \cup (IF old_cats # new_cats
                         /\ (new_cats \ old_cats # {} \/ old_cats \ new_cats # {})
                      THEN {"categories"} ELSE {})
    IN  [k \in keys |->
            CASE k = "id" -> [old |-> old_shop.id, new |-> new_shop.id]
              [] k = "status" -> [old |-> old_shop.status, new |-> new_shop.status]
              [] k = "categories" -> categories_change(old_cats, new_cats)]

\* lines 117-122
changed_entry(old_shop, new_shop) ==
    [name |-> old_shop.name,
     old_shop |-> asdict(old_shop),
     new_shop |-> asdict(new_shop),
     changes |-> changes_of(old_shop, new_shop)]

\* lines 78-83
old_names(old) == DOMAIN name_dict(old)
new_names(new) == DOMAIN name_dict(new)

\* variant of appeared_names that does not subtract old_names
appeared_names_all(old, new) == new_names(new)

appeared_names(old, new) == new_names(new) \ old_names(old)
disappeared_names(old, new) == old_names(old) \ new_names(new)
remaining_names(old, new) == old_names(old) \cap new_names(new)

\* analyze_changes(old, new) when the three name sets are iterated in the
\* orders appeared, disappeared, remaining and the clock reads date
analyze_changes(old, new, appeared, disappeared, remaining, date) ==
    LET old_dict == name_dict(old)
        new_dict == name_dict(new)
        new_shops_list == [i \in DOMAIN appeared |-> new_dict[appeared[i]]]
        disappeared_shops_list == [i \in DOMAIN disappeared |-> old_dict[disappeared[i]]]
        compared == [i \in DOMAIN remaining |->
                        changed_entry(old_dict[remaining[i]], new_dict[remaining[i]])]
        changed_shops_list == SelectSeq(compared, LAMBDA e : DOMAIN e.changes # {})
        stats == [total_before |-> Len(old),
                  total_after |-> Len(new),
                  new_count |-> Len(new_shops_list),
                  disappeared_count |-> Len(disappeared_shops_list),
                  changed_count |-> Len(changed_shops_list),
                  unchanged_count |-> unchanged_count(remaining, changed_shops_list),
                  change_percentage |-> change_percentage(Len(old), Len(new))]
    IN  [date |-> date,
         total_before |-> Len(old),
         total_after |-> Len(new),
         new_shops |-> new_shops_list,
         disappeared_shops |-> disappeared_shops_list,
         changed_shops |-> changed_shops_list,
         stats |-> stats]

\* the reports analyze_changes(old, new) may return at clock reading date
Reports(old, new, date) ==
    { analyze_changes(old, new, a, d, r, date) :
        a \in Orders(appeared_names(old, new)),
        d \in Orders(disappeared_names(old, new)),
        r \in Orders(remaining_names(old, new)) }

(***************************************************************************)
(* Files.                                                                  *)
(***************************************************************************)
Absent == [kind |-> "absent"]
Truncated == [kind |-> "truncated"]
NoHistory == [t \in 0..MaxClock |-> Absent]

EmptyFs == [data_file |-> Absent, latest_json |-> Absent, history_json |-> NoHistory,
            report_html |-> Absent, history_html |-> NoHistory]

Steps == {"snapshot", "json", "html"}
NoOutcome == [s \in Steps |-> "none"]

\* dict.get(key, default) on a JSON object (a function on the keys it has)
Get(item, key, default) == IF key \in DOMAIN item THEN item[key] ELSE default

\* lines 60-66: the JSON array save_new_shops dumps
snapshot_json(shops) ==
    [kind |-> "json", data |-> [i \in DOMAIN shops |-> asdict(shops[i])]]

\* variant of load_old_shops that does not pass assigned_categories to Point
load_old_shops_noassigned(file) ==
    IF file.kind # "json"
    THEN <<>>
    ELSE [i \in DOMAIN file.data |->
            Point(Get(file.data[i], "id", ""),
                  Get(file.data[i], "name", <<>>),
                  Get(file.data[i], "parsed_categories", <<>>),
                  <<>>,
                  Get(file.data[i], "parsing_date", ""),
                  Get(file.data[i], "status", "unknown"))]

\* load_old_shops: no file, or a file json.load rejects, gives []
load_old_shops(file) ==
    IF file.kind # "json"
    THEN <<>>
    ELSE [i \in DOMAIN file.data |->
            Point(Get(file.data[i], "id", ""),
                  Get(file.data[i], "name", <<>>),
                  Get(file.data[i], "parsed_categories", <<>>),
                  Get(file.data[i], "assigned_categories", <<>>),
                  Get(file.data[i], "parsing_date", ""),
                  Get(file.data[i], "status", "unknown"))]

\* What the environment does to one call: os.makedirs raises or not, and the
\* write in the try block succeeds, fails in open() or fails after open() has
\* emptied the file.
MakedirsOutcomes == {"ok", "makedirs_error"}
WriteOutcomes == {"ok", "open_error", "io_error"}

\* the environment fails at most MaxFaults calls
Failed(o) == IF o = "ok" THEN 0 ELSE 1

\* with open(f, 'w') ...: dump(content)
written(file, content, w) ==
    CASE w = "ok" -> content
      [] w = "open_error" -> file
      [] w = "io_error" -> Truncated

\* save_new_shops(shops, filename) under the environment's (mk, w): the file
\* afterwards and how the call ended ("makedirs_error": the OSError of line 58
\* leaves the function)
save_new_shops(shops, file, mk, w) ==
    IF mk = "makedirs_error"
    THEN [file |-> file, outcome |-> "makedirs_error"]
    ELSE [file |-> written(file, snapshot_json(shops), w), outcome |-> w]

(***************************************************************************)
(* The diff engine alone: analyze_changes on every pair of inputs.         *)
(***************************************************************************)
InitDiff ==
    /\ pc = "input"
    /\ run = 0
    /\ now = 0
    /\ old_shops \in PointSeqs
    /\ new_shop_list \in PointSeqs
    /\ report = NoReport
    /\ ret = "pending"
    /\ fetch_status = "none"
    /\ outcome = NoOutcome
    /\ data_file = Absent
    /\ latest_json = Absent
    /\ history_json = NoHistory
    /\ report_html = Absent
    /\ history_html = NoHistory
    /\ fs_start = EmptyFs
    /\ faults = 0

Analyze ==
    /\ pc = "input"
    /\ report' \in Reports(old_shops, new_shop_list, now)
    /\ pc' = "analyzed"
    /\ UNCHANGED <<run, now, old_shops, new_shop_list, ret, fetch_status, outcome,
                   data_file, latest_json, history_json, report_html, history_html,
                   fs_start, faults>>

NextDiff == Analyze

SpecDiff == InitDiff /\ [][NextDiff]_vars

(***************************************************************************)
(* The snapshot store alone: save_new_shops, then load_old_shops, on every *)
(* sequence of Points and over every earlier content of the file.          *)
(***************************************************************************)
\* a snapshot written by an earlier version: an object without some keys
DriftedFile == [kind |-> "json", data |-> << [id |-> "1", name |-> NameB] >>]

InitialFiles == {Absent, Truncated, DriftedFile}

InitStore ==
    /\ pc = "input"
    /\ run = 0
    /\ now = 0
    /\ old_shops = <<>>
    /\ new_shop_list \in PointSeqs
    /\ report = NoReport
    /\ ret = "pending"
    /\ fetch_status = "none"
    /\ outcome = NoOutcome
    /\ data_file \in InitialFiles
    /\ latest_json = Absent
    /\ history_json = NoHistory
    /\ report_html = Absent
    /\ history_html = NoHistory
    /\ fs_start = EmptyFs
    /\ faults = 0

Save ==
    /\ pc = "input"
    /\ \E mk \in MakedirsOutcomes, w \in WriteOutcomes :
          LET r == save_new_shops(new_shop_list, data_file, mk, w)
          IN  /\ data_file' = r.file
              /\ outcome' = [outcome EXCEPT !["snapshot"] = r.outcome]
              /\ faults + Failed(r.outcome) <= MaxFaults
              /\ faults' = faults + Failed(r.outcome)
    /\ pc' = "saved"
    /\ UNCHANGED <<run, now, old_shops, new_shop_list, report, ret, fetch_status,
                   latest_json, history_json, report_html, history_html, fs_start>>

Load ==
    /\ pc \in {"input", "saved"}
    /\ old_shops' = load_old_shops(data_file)
    /\ pc' = "loaded"
    /\ UNCHANGED <<run, now, new_shop_list, report, ret, fetch_status, outcome,
                   data_file, latest_json, history_json, report_html, history_html,
                   fs_start, faults>>

NextStore == Save \/ Load

SpecStore == InitStore /\ [][NextStore]_vars

(***************************************************************************)
(* The report writers.                                                     *)
(***************************************************************************)
\* asdict(report), as dumped by save_report_to_json; by is the run that wrote it
report_json(r, by) == [kind |-> "json", by |-> by, body |-> r]

\* lines 418-436: the rendered template, as the data it substitutes
report_document(r, by) ==
    [kind |-> "html", by |-> by,
     body |-> [report_date |-> r.date,
               total_before |-> r.total_before,
               total_after |-> r.total_after,
               new_count |-> r.stats.new_count,
               disappeared_count |-> r.stats.disappeared_count,
               changed_count |-> r.stats.changed_count,
               change_percentage |-> r.stats.change_percentage,
               change_color |-> IF r.stats.change_percentage > 0 THEN "success"
                                ELSE IF r.stats.change_percentage < 0 THEN "danger"
                                ELSE "secondary",
               new_shops |-> [i \in DOMAIN r.new_shops |-> asdict(r.new_shops[i])],
               disappeared_shops |->
                   [i \in DOMAIN r.disappeared_shops |-> asdict(r.disappeared_shops[i])],
               changed_shops |-> r.changed_shops]]

\* datetime.now().strftime("%Y%m%d_%H%M%S"): the clock at one-second resolution
date_str(clock) == clock

\* The two writes of one try block (lines 156-166 and 443-455): the latest
\* file, then the history file named by date_str; an exception in the first
\* write skips the second.
write_pair(latest, history, content, t, w1, w2) ==
    [latest |-> written(latest, content, w1),
     history |-> IF w1 = "ok"
                 THEN [history EXCEPT ![t] = written(history[t], content, w2)]
                 ELSE history,
     outcome |-> IF w1 = "ok" THEN w2 ELSE w1]

\* save_report_to_json(report) and the file part of generate_html_report(report)
write_report(latest, history, content, t, mk, w1, w2) ==
    IF mk = "makedirs_error"
    THEN [latest |-> latest, history |-> history, outcome |-> "makedirs_error"]
    ELSE write_pair(latest, history, content, t, w1, w2)

(***************************************************************************)
(* One run of parse_aviapark / parse_riviera after another.                *)
(***************************************************************************)
VendorFields == {"id", "title", "categories", "status"}

\* departments of a vendor's answer; the second has no status
Department1 ==
    [id |-> "1", title |-> NameA, categories |-> <<"A", "B">>, status |-> "opened"]
Department2 ==
    [id |-> "2", title |-> NameA2, categories |-> <<"B", "C">>]

\* the answers a fetch may decode: no department (a valid answer), one, and
\* two with the same normalized title
VendorAnswers == { <<>>, <<Department1>>, <<Department2, Department1>> }

\* lines 514-522 (parse_aviapark) and 474-482 (parse_riviera)
ingest_aviapark(data, clock) ==
    [i \in DOMAIN data |->
        Point(Get(data[i], "id", ""), Get(data[i], "title", <<>>),
              Get(data[i], "categories", <<>>), <<>>, clock,
              Get(data[i], "status", "unknown"))]

ingest_riviera(data, clock) ==
    [i \in DOMAIN data |->
        Point(data[i].id, data[i].title, <<>>, <<>>, clock,
              Get(data[i], "status", "unknown"))]

Fs == [data_file |-> data_file, latest_json |-> latest_json,
       history_json |-> history_json, report_html |-> report_html,
       history_html |-> history_html]

Init ==
    /\ pc = "start"
    /\ run = 0
    /\ now = 0
    /\ old_shops = <<>>
    /\ new_shop_list = <<>>
    /\ report = NoReport
    /\ ret = "pending"
    /\ fetch_status = "none"
    /\ outcome = NoOutcome
    /\ data_file \in {Absent, DriftedFile}
    /\ latest_json = Absent
    /\ history_json = NoHistory
    /\ report_html = Absent
    /\ history_html = NoHistory
    /\ fs_start = [EmptyFs EXCEPT !.data_file = data_file]
    /\ faults = 0

\* The second changes while nothing runs or while the run waits for the
\* vendor's answer; the local steps after the fetch fall within one second.
Tick ==
    /\ pc \in {"start", "done", "raised", "fetch"}
    /\ now < MaxClock
    /\ now' = now + 1
    /\ UNCHANGED <<pc, run, old_shops, new_shop_list, report, ret, fetch_status,
                   outcome, data_file, latest_json, history_json, report_html,
                   history_html, fs_start, faults>>

\* a run starts (the first, or the next after one that returned or raised):
\* lines 498 and 501
StartRun ==
    /\ pc \in {"start", "done", "raised"}
    /\ run < MaxRuns
    /\ run' = run + 1
    /\ old_shops' = load_old_shops(data_file)
    /\ new_shop_list' = <<>>
    /\ report' = NoReport
    /\ ret' = "pending"
    /\ fetch_status' = "none"
    /\ outcome' = NoOutcome
    /\ fs_start' = Fs
    /\ pc' = "fetch"
    /\ UNCHANGED <<now, data_file, latest_json, history_json, report_html, history_html,
                   faults>>

\* variant of fetch_failed that goes on with an empty new_shop_list
fetch_failed_goes_on ==
    /\ fetch_status' = "failed"
    /\ pc' = "analyze"
    /\ UNCHANGED <<ret, new_shop_list>>

\* lines 506-512: requests.get, raise_for_status or response.json raises
fetch_failed ==
    /\ fetch_status' = "failed"
    /\ ret' = "None"
    /\ pc' = "done"
    /\ UNCHANGED new_shop_list

FetchFails ==
    /\ pc = "fetch"
    /\ fetch_failed
    /\ UNCHANGED <<run, now, old_shops, report, outcome, data_file, latest_json,
                   history_json, report_html, history_html, fs_start, faults>>

\* lines 506-524 of parse_aviapark: the answer decodes and has departments
FetchAviapark ==
    /\ pc = "fetch"
    /\ \E data \in VendorAnswers :
          new_shop_list' = ingest_aviapark(data, now)
    /\ fetch_status' = "ok"
    /\ pc' = "analyze"
    /\ UNCHANGED <<run, now, old_shops, report, ret, outcome, data_file, latest_json,
                   history_json, report_html, history_html, fs_start, faults>>

\* lines 466-484 of parse_riviera
FetchRiviera ==
    /\ pc = "fetch"
    /\ \E data \in {d \in VendorAnswers : \A i \in DOMAIN d : DOMAIN d[i] = VendorFields} :
          new_shop_list' = ingest_riviera(data, now)
    /\ fetch_status' = "ok"
    /\ pc' = "analyze"
    /\ UNCHANGED <<run, now, old_shops, report, ret, outcome, data_file, latest_json,
                   history_json, report_html, history_html, fs_start, faults>>

\* lines 514 and 474: the answer decodes but has no departments / payload key;
\* the KeyError leaves parse_*
IngestRaises ==
    /\ pc = "fetch"
    /\ fetch_status' = "ok"
    /\ ret' = "raised"
    /\ pc' = "raised"
    /\ UNCHANGED <<run, now, old_shops, new_shop_list, report, outcome, data_file,
                   latest_json, history_json, report_html, history_html, fs_start, faults>>

\* lines 526 and 486
AnalyzeRun ==
    /\ pc = "analyze"
    /\ report' \in Reports(old_shops, new_shop_list, now)
    /\ pc' = "save_new_shops"
    /\ UNCHANGED <<run, now, old_shops, new_shop_list, ret, fetch_status, outcome,
                   data_file, latest_json, history_json, report_html, history_html,
                   fs_start, faults>>

\* where parse_* is after a persistence step ended with outcome o
after_step(o, next) == IF o = "makedirs_error" THEN "raised" ELSE next

\* lines 528 and 488
SaveNewShops ==
    /\ pc = "save_new_shops"
    /\ \E mk \in MakedirsOutcomes, w \in WriteOutcomes :
          LET r == save_new_shops(new_shop_list, data_file, mk, w)
          IN  /\ data_file' = r.file
              /\ outcome' = [outcome EXCEPT !["snapshot"] = r.outcome]
              /\ pc' = after_step(r.outcome, "save_report_to_json")
              /\ ret' = IF r.outcome = "makedirs_error" THEN "raised" ELSE ret
              /\ faults + Failed(r.outcome) <= MaxFaults
              /\ faults' = faults + Failed(r.outcome)
    /\ UNCHANGED <<run, now, old_shops, new_shop_list, report, fetch_status,
                   latest_json, history_json, report_html, history_html, fs_start>>

\* lines 530 and 490
SaveReportToJson ==
    /\ pc = "save_report_to_json"
    /\ \E mk \in MakedirsOutcomes, w1 \in WriteOutcomes, w2 \in WriteOutcomes :
          LET r == write_report(latest_json, history_json, report_json(report, run),
                                date_str(now), mk, w1, w2)
          IN  /\ latest_json' = r.latest
              /\ history_json' = r.history
              /\ outcome' = [outcome EXCEPT !["json"] = r.outcome]
              /\ pc' = after_step(r.outcome, "generate_html_report")
              /\ ret' = IF r.outcome = "makedirs_error" THEN "raised" ELSE ret
              /\ faults + Failed(r.outcome) <= MaxFaults
              /\ faults' = faults + Failed(r.outcome)
    /\ UNCHANGED <<run, now, old_shops, new_shop_list, report, fetch_status,
                   data_file, report_html, history_html, fs_start>>

\* lines 532-534 and 492-494: generate_html_report, then return report
GenerateHtmlReport ==
    /\ pc = "generate_html_report"
    /\ \E mk \in MakedirsOutcomes, w1 \in WriteOutcomes, w2 \in WriteOutcomes :
          LET r == write_report(report_html, history_html, report_document(report, run),
                                date_str(now), mk, w1, w2)
          IN  /\ report_html' = r.latest
              /\ history_html' = r.history
              /\ outcome' = [outcome EXCEPT !["html"] = r.outcome]
              /\ pc' = after_step(r.outcome, "done")
              /\ ret' = IF r.outcome = "makedirs_error" THEN "raised" ELSE "report"
              /\ faults + Failed(r.outcome) <= MaxFaults
              /\ faults' = faults + Failed(r.outcome)
    /\ UNCHANGED <<run, now, old_shops, new_shop_list, report, fetch_status,
                   data_file, latest_json, history_json, fs_start>>

Next ==
    \/ Tick
    \/ StartRun
    \/ FetchFails
    \/ FetchAviapark
    \/ FetchRiviera
    \/ IngestRaises
    \/ AnalyzeRun
    \/ SaveNewShops
    \/ SaveReportToJson
    \/ GenerateHtmlReport

Spec == Init /\ [][Next]_vars


(***************************************************************************)
(* Vocabulary of the properties of the diff engine.  Names are related     *)
(* here without normalize_name: two names are the same entity when, with   *)
(* the surrounding whitespace cut off, they have the same letters up to    *)
(* case.                                                                   *)
(***************************************************************************)
CasePairs == {<<"a", "A">>, <<"b", "B">>}

SameLetter(c, d) == c = d \/ <<c, d>> \in CasePairs \/ <<d, c>> \in CasePairs

Trimmed(s) ==
    LET idx == {i \in DOMAIN s : s[i] \notin Whitespace}
    IN  IF idx = {}
        THEN <<>>
        ELSE SubSeq(s, CHOOSE i \in idx : \A j \in idx : i <= j,
                       CHOOSE i \in idx : \A j \in idx : i >= j)

SameEntity(a, b) ==
    LET x == Trimmed(a)
        y == Trimmed(b)
    IN  Len(x) = Len(y) /\ \A k \in DOMAIN x : SameLetter(x[k], y[k])

\* the normalized names of a sequence of Points
Keys(shops) == {normalize_name(shops[i].name) : i \in DOMAIN shops}

\* the last Point of shops with normalized name k
Survivor(shops, k) ==
    LET idx == {i \in DOMAIN shops : normalize_name(shops[i].name) = k}
    IN  shops[CHOOSE i \in idx : \A j \in idx : i >= j]

\* how many elements of the list l have normalized name k (by is the name of an element)
CountIn(l, k, by(_)) == Cardinality({i \in DOMAIN l : normalize_name(by(l[i])) = k})

PointName(p) == p.name

TrackedDiffer(o, n) ==
    \/ o.id # n.id
    \/ o.status # n.status
    \/ Range(o.parsed_categories) # Range(n.parsed_categories)

Analyzed == pc = "analyzed"

\* the entries of changed_shops for normalized name k
EntriesOf(k) ==
    {i \in DOMAIN report.changed_shops : normalize_name(report.changed_shops[i].name) = k}

(***************************************************************************)
(* C1: for every pair of inputs, duplicates included, the lengths of       *)
(* new_shops, disappeared_shops and changed_shops plus unchanged_count add *)
(* up to the number of distinct normalized names of old and new together,  *)
(* and every such name is counted in exactly one of the four groups: it    *)
(* occurs at most once in the three lists taken together, and the names    *)
(* that occur in none of them are unchanged_count many.                    *)
(***************************************************************************)
C1_Partition ==
    Analyzed =>
        LET K == Keys(old_shops) \cup Keys(new_shop_list)
            Listed(k) == CountIn(report.new_shops, k, PointName)
                         + CountIn(report.disappeared_shops, k, PointName)
                         + CountIn(report.changed_shops, k, PointName)
        IN  /\ Len(report.new_shops) + Len(report.disappeared_shops)
                 + Len(report.changed_shops) + report.stats.unchanged_count
               = Cardinality(K)
            /\ \A k \in K : Listed(k) <= 1
            /\ Cardinality({k \in K : Listed(k) = 0}) = report.stats.unchanged_count

\* a report with one name in each of the four groups, built from inputs with
\* a duplicate normalized name
C1_Witness ==
    /\ Analyzed
    /\ Len(old_shops) > Cardinality(Keys(old_shops))
    /\ Len(report.new_shops) + Len(report.disappeared_shops) >= 1
    /\ Len(report.changed_shops) >= 1

(***************************************************************************)
(* C2: analyze_changes(X, X) has empty new_shops, disappeared_shops and    *)
(* changed_shops, and unchanged_count is the number of distinct normalized *)
(* names of X.                                                             *)
(***************************************************************************)
C2_SelfDiff ==
    (Analyzed /\ old_shops = new_shop_list) =>
        /\ report.new_shops = <<>>
        /\ report.disappeared_shops = <<>>
        /\ report.changed_shops = <<>>
        /\ report.stats.unchanged_count = Cardinality(Keys(old_shops))

\* X holds two Points with one normalized name that differ in a tracked field
C2_Witness ==
    /\ Analyzed
    /\ old_shops = new_shop_list
    /\ Len(old_shops) = 2
    /\ Cardinality(Keys(old_shops)) = 1
    /\ TrackedDiffer(old_shops[1], old_shops[2])
    /\ report.stats.unchanged_count = 1

(***************************************************************************)
(* C3: a normalized name of both sides has an entry in changed_shops if    *)
(* and only if the surviving old and new Points differ in id, in status or *)
(* in the set of parsed_categories; the names without an entry are         *)
(* unchanged_count many.                                                   *)
(***************************************************************************)
C3_ChangedIffTracked ==
    Analyzed =>
        LET K == Keys(old_shops) \cap Keys(new_shop_list)
        IN  /\ \A k \in K :
                  EntriesOf(k) # {}
                  <=> TrackedDiffer(Survivor(old_shops, k), Survivor(new_shop_list, k))
            /\ report.stats.unchanged_count
               = Cardinality({k \in K : ~TrackedDiffer(Survivor(old_shops, k),
                                                       Survivor(new_shop_list, k))})

\* one common name whose Points differ in name spelling, assigned_categories,
\* parsing_date and the order and repetition of parsed_categories only, and
\* so has no entry; another common name with an entry
C3_Witness ==
    /\ Analyzed
    /\ \E i \in DOMAIN old_shops, j \in DOMAIN new_shop_list :
          /\ old_shops[i].name # new_shop_list[j].name
          /\ normalize_name(old_shops[i].name) = normalize_name(new_shop_list[j].name)
          /\ old_shops[i].assigned_categories # new_shop_list[j].assigned_categories
          /\ old_shops[i].parsing_date # new_shop_list[j].parsing_date
          /\ old_shops[i].parsed_categories # new_shop_list[j].parsed_categories
          /\ EntriesOf(normalize_name(old_shops[i].name)) = {}
    /\ report.stats.unchanged_count = 1
    /\ Len(report.changed_shops) = 1

(***************************************************************************)
(* C4: for a common name whose old and new parsed_categories differ as     *)
(* sets, the entry's categories change has added = new minus old, removed  *)
(* = old minus new, total_old and total_new the numbers of distinct old    *)
(* and new categories; when the sets are equal no entry of the name has a  *)
(* categories change.                                                      *)
(***************************************************************************)
C4_CategoryDelta ==
    Analyzed =>
        \A k \in Keys(old_shops) \cap Keys(new_shop_list) :
            LET oc == Range(Survivor(old_shops, k).parsed_categories)
                nc == Range(Survivor(new_shop_list, k).parsed_categories)
            IN  IF oc # nc
                THEN /\ EntriesOf(k) # {}
                     /\ \A i \in EntriesOf(k) :
                          /\ "categories" \in DOMAIN report.changed_shops[i].changes
                          /\ report.changed_shops[i].changes["categories"]
                             = [added |-> nc \ oc, removed |-> oc \ nc,
                                total_old |-> Cardinality(oc),
                                total_new |-> Cardinality(nc)]
                ELSE \A i \in EntriesOf(k) :
                          "categories" \notin DOMAIN report.changed_shops[i].changes

\* old categories {A, B}, new categories {B, C}: added {C}, removed {A}, 2 and 2
C4_Witness ==
    /\ Analyzed
    /\ \E i \in DOMAIN report.changed_shops :
          /\ "categories" \in DOMAIN report.changed_shops[i].changes
          /\ report.changed_shops[i].changes["categories"]
             = [added |-> {"C"}, removed |-> {"A"}, total_old |-> 2, total_new |-> 2]

(***************************************************************************)
(* C5 as stated: for non-empty new, analyze_changes([], new) has           *)
(* change_percentage 100 * len(new) (here in hundredths of a percent),     *)
(* every Point of new in new_shops, and disappeared_shops and              *)
(* changed_shops empty.                                                    *)
(***************************************************************************)
C5_AsStated ==
    (Analyzed /\ old_shops = <<>> /\ new_shop_list # <<>>) =>
        /\ report.stats.change_percentage = 100 * 100 * Len(new_shop_list)
        /\ \A i \in DOMAIN new_shop_list : new_shop_list[i] \in Range(report.new_shops)
        /\ report.disappeared_shops = <<>>
        /\ report.changed_shops = <<>>

(***************************************************************************)
(* C5 amended: for non-empty new, analyze_changes([], new) has             *)
(* change_percentage 100 * len(new), every Point of new that is the last   *)
(* one of new with its normalized name in new_shops, and                   *)
(* disappeared_shops and changed_shops empty.                              *)
(***************************************************************************)
C5_ZeroBaseline ==
    (Analyzed /\ old_shops = <<>> /\ new_shop_list # <<>>) =>
        /\ report.stats.change_percentage = 100 * 100 * Len(new_shop_list)
        /\ \A i \in DOMAIN new_shop_list :
              (\A j \in DOMAIN new_shop_list :
                  j > i => normalize_name(new_shop_list[j].name)
                           # normalize_name(new_shop_list[i].name))
              => new_shop_list[i] \in Range(report.new_shops)
        /\ report.disappeared_shops = <<>>
        /\ report.changed_shops = <<>>

\* no baseline, and two new Points of one normalized name: 200 percent and
\* one Point in new_shops
C5_Witness ==
    /\ Analyzed
    /\ old_shops = <<>>
    /\ Len(new_shop_list) = 2
    /\ Cardinality(Keys(new_shop_list)) = 1
    /\ new_shop_list[1] # new_shop_list[2]
    /\ report.new_shops = <<new_shop_list[2]>>
    /\ report.stats.change_percentage = 20000

(***************************************************************************)
(* C6: when a Point of old and a Point of new have names that differ only  *)
(* by letter case or surrounding whitespace, no Point of that entity is in *)
(* new_shops or disappeared_shops, and the entities present on both sides  *)
(* are each compared once: they are the changed_shops entries and the      *)
(* unchanged_count together.                                               *)
(***************************************************************************)
C6_NameReconciled ==
    Analyzed =>
        LET both == {i \in DOMAIN old_shops :
                        \E j \in DOMAIN new_shop_list :
                            SameEntity(old_shops[i].name, new_shop_list[j].name)}
            Entity(i) == {j \in DOMAIN old_shops :
                            SameEntity(old_shops[i].name, old_shops[j].name)}
        IN  /\ \A i \in both :
                  \A p \in Range(report.new_shops) \cup Range(report.disappeared_shops) :
                      ~SameEntity(p.name, old_shops[i].name)
            /\ Len(report.changed_shops) + report.stats.unchanged_count
               = Cardinality({Entity(i) : i \in both})

\* "A" in old and " a<tab>" in new: one entity, compared, nothing new or gone
C6_Witness ==
    /\ Analyzed
    /\ \E i \in DOMAIN old_shops, j \in DOMAIN new_shop_list :
          /\ old_shops[i].name = NameA
          /\ new_shop_list[j].name = NameA2
    /\ report.new_shops = <<>>
    /\ report.disappeared_shops = <<>>
    /\ Len(report.changed_shops) + report.stats.unchanged_count = 1

(***************************************************************************)
(* C7: when the vendor fetch of a run fails, the run ends there, returns   *)
(* no report, computes none, calls no persistence step, and the snapshot   *)
(* file, latest_report.json, the timestamped JSON reports, report.html and *)
(* the timestamped HTML reports are as they were when the run started.     *)
(***************************************************************************)
C7_FetchFailureWritesNothing ==
    fetch_status = "failed" =>
        /\ pc = "done"
        /\ ret = "None"
        /\ report = NoReport
        /\ outcome = NoOutcome
        /\ Fs = fs_start

\* the fetch of a second run fails after a first run has written all its files
C7_Witness ==
    /\ fetch_status = "failed"
    /\ run = 2
    /\ data_file.kind = "json"
    /\ latest_json.kind = "json"
    /\ report_html.kind = "html"
    /\ \E t \in DOMAIN history_json : history_json[t].kind = "json"
    /\ \E t \in DOMAIN history_html : history_html[t].kind = "html"

(***************************************************************************)
(* C8: in a run whose fetch succeeded, a failure in one persistence step   *)
(* (creating its directory included) is caught, so the run still returns   *)
(* its report, and every other persistence step is still attempted.        *)
(***************************************************************************)
C8_StepsIndependent ==
    (pc \in {"done", "raised"} /\ \E s \in Steps : outcome[s] \notin {"none", "ok"}) =>
        /\ \A s \in Steps : outcome[s] # "none"
        /\ ret = "report"

(***************************************************************************)
(* C9: no run overwrites a history report (JSON or HTML) that an earlier   *)
(* run has written, also when two runs fall into the same clock second.    *)
(***************************************************************************)
C9_HistoryNeverOverwritten ==
    [][\A t \in DOMAIN history_json :
          /\ history_json[t].kind = "json" => history_json'[t] = history_json[t]
          /\ history_html[t].kind = "html" => history_html'[t] = history_html[t]]_vars

(***************************************************************************)
(* C10: load_old_shops applied to the file save_new_shops has written      *)
(* returns the saved sequence of Points: the same Points in the same       *)
(* order, equal in id, name, parsed_categories, assigned_categories,       *)
(* parsing_date and status; this is the baseline the next run loads.       *)
(***************************************************************************)
C10_RoundTrip ==
    (pc = "loaded" /\ outcome["snapshot"] = "ok") =>
        /\ Len(old_shops) = Len(new_shop_list)
        /\ \A i \in DOMAIN new_shop_list :
              \A k \in PointFields : old_shops[i][k] = new_shop_list[i][k]

\* two Points, one with assigned_categories, saved over an older snapshot
\* and loaded again
C10_Witness ==
    /\ pc = "loaded"
    /\ outcome["snapshot"] = "ok"
    /\ Len(new_shop_list) = 2
    /\ new_shop_list[1] # new_shop_list[2]
    /\ \E i \in DOMAIN new_shop_list : new_shop_list[i].assigned_categories # <<>>
    /\ old_shops = new_shop_list
    /\ data_file # DriftedFile

(***************************************************************************)
(* C11: when several Points of one side share a normalized name, the last  *)
(* of them in input order is the one that takes part: new_shops holds      *)
(* exactly the last new Point of every name only in new, disappeared_shops *)
(* the last old Point of every name only in old, and every changed_shops   *)
(* entry shows and compares the last old and the last new Point of its     *)
(* name; total_before and total_after count every input Point.             *)
(***************************************************************************)
C11_LastWins ==
    Analyzed =>
        LET OK == Keys(old_shops)
            NK == Keys(new_shop_list)
        IN  /\ Range(report.new_shops) = {Survivor(new_shop_list, k) : k \in NK \ OK}
            /\ Len(report.new_shops) = Cardinality(NK \ OK)
            /\ Range(report.disappeared_shops) = {Survivor(old_shops, k) : k \in OK \ NK}
            /\ Len(report.disappeared_shops) = Cardinality(OK \ NK)
            /\ \A i \in DOMAIN report.changed_shops :
                  LET e == report.changed_shops[i]
                      k == normalize_name(e.name)
                      o == Survivor(old_shops, k)
                      n == Survivor(new_shop_list, k)
                  IN  /\ k \in OK \cap NK
                      /\ e.name = o.name
                      /\ \A f \in PointFields : e.old_shop[f] = o[f] /\ e.new_shop[f] = n[f]
                      /\ "id" \in DOMAIN e.changes <=> o.id # n.id
                      /\ "id" \in DOMAIN e.changes
                            => e.changes["id"] = [old |-> o.id, new |-> n.id]
                      /\ "status" \in DOMAIN e.changes <=> o.status # n.status
                      /\ "status" \in DOMAIN e.changes
                            => e.changes["status"] = [old |-> o.status, new |-> n.status]
                      /\ "categories" \in DOMAIN e.changes
                            <=> Range(o.parsed_categories) # Range(n.parsed_categories)
            /\ \A k \in OK \cap NK :
                  TrackedDiffer(Survivor(old_shops, k), Survivor(new_shop_list, k))
                  => EntriesOf(k) # {}
            /\ report.total_before = Len(old_shops)
            /\ report.total_after = Len(new_shop_list)
            /\ report.stats.total_before = Len(old_shops)
            /\ report.stats.total_after = Len(new_shop_list)

\* old holds two Points of one name that differ in a tracked field, the
\* earlier one equal to the new Point in every tracked field: the entry
\* compares the later one, and total_before is 2
C11_Witness ==
    /\ Analyzed
    /\ Len(old_shops) = 2
    /\ Len(new_shop_list) = 1
    /\ Cardinality(Keys(old_shops) \cup Keys(new_shop_list)) = 1
    /\ ~TrackedDiffer(old_shops[1], new_shop_list[1])
    /\ TrackedDiffer(old_shops[2], new_shop_list[1])
    /\ Len(report.changed_shops) = 1
    /\ report.changed_shops[1].old_shop = asdict(old_shops[2])
    /\ report.total_before = 2

(***************************************************************************)
(* C12: within one run the diff is computed only after a successful fetch, *)
(* the report artifacts are written only after the diff, and the snapshot  *)
(* file is overwritten only after the JSON report and the rendered         *)
(* document of that run have been written.                                 *)
(***************************************************************************)
C12_SnapshotAfterReports ==
    /\ report # NoReport => fetch_status = "ok"
    /\ outcome["json"] # "none" => report # NoReport
    /\ outcome["html"] # "none" => outcome["json"] # "none"
    /\ outcome["snapshot"] # "none" => (outcome["json"] # "none" /\ outcome["html"] # "none")

====
